---- MODULE Spec2Model ----
(***************************************************************************)
(* Model of nuke_bridge.py: a one-shot command dispatcher.  A process is   *)
(* launched with sys.argv, main() parses the command and its JSON          *)
(* arguments, imports the host scripting module, runs one of four handlers *)
(* against the host session and prints response envelopes with respond().  *)
(*                                                                         *)
(* Python values are tagged records (TLC cannot compare a string with a    *)
(* number): Str, Num, None, List.  An exception is carried in the "exc"    *)
(* field of a result, "none" meaning normal return.                        *)
(*                                                                         *)
(* The file as shipped indents every line after the shebang, which CPython *)
(* rejects with IndentationError before anything runs; the model is of the *)
(* script with that common indentation removed.                            *)
(***************************************************************************)
EXTENDS Integers, Sequences, FiniteSets, TLC

VARIABLES session, before, pc, argv, env, stdout, calls, handlers, exc, launched

vars == <<session, before, pc, argv, env, stdout, calls, handlers, exc, launched>>

(***************************************************************************)
(* Bounds of the model.                                                    *)
(***************************************************************************)
\* processes launched one after the other against the same host session
MaxInvocations == 1
\* longest "inputs" list of a createNode request
MaxInputs == 2

(***************************************************************************)
(* Python / JSON values.                                                   *)
(***************************************************************************)
None == [t |-> "null"]
Str(s) == [t |-> "str", s |-> s]
Num(n) == [t |-> "int", n |-> n]
List(items) == [t |-> "list", items |-> items]
\* the text cls followed by the decimal digits of k, e.g. "Blur1"
AutoName(cls, k) == [t |-> "str", s |-> cls, k |-> k]
\* str(e) of a caught exception of the given type
ExcText(type) == [t |-> "exc", s |-> type]
\* an f-string: fixed text followed by one interpolated value
Msg(text, arg) == [t |-> "msg", text |-> text, arg |-> arg]

\* bool(v), as used by "if error:", "if name:", "if input_node:", "if not node"
Truthy(v) ==
    CASE v.t = "null" -> FALSE
      [] v.t = "str" -> v # Str("")
      [] v.t = "int" -> v.n # 0
      [] v.t = "list" -> v.items # <<>>
      [] v.t = "msg" -> TRUE
      [] v.t = "node" -> TRUE
      [] OTHER -> TRUE

\* int(v): [exc, n]
int(v) ==
    CASE v.t = "int" -> [exc |-> "none", n |-> v.n]
      [] v.t = "str" -> IF "digits" \in DOMAIN v
                        THEN [exc |-> "none", n |-> v.digits]
                        ELSE [exc |-> "ValueError", n |-> 0]
      [] OTHER -> [exc |-> "TypeError", n |-> 0]

\* a string whose text is the decimal numeral of n, e.g. "2"
Numeral(n) == [t |-> "str", s |-> "numeral", digits |-> n]

(***************************************************************************)
(* respond (lines 7-14): prints one envelope.  The envelope is a record    *)
(* whose DOMAIN is the set of keys of the JSON object.                     *)
(***************************************************************************)
\* variant: a null data is left out of the envelope
respond_omitting_null_data(success, data, error) ==
    IF data = None
    THEN [success |-> success, error |-> error]
    ELSE [success |-> success, data |-> data]

\* variant: the error key is written whatever its value
respond_always_error(success, data, error) ==
    [success |-> success, data |-> data, error |-> error]

respond(success, data, error) ==
    IF Truthy(error)
    THEN [success |-> success, data |-> data, error |-> error]
    ELSE [success |-> success, data |-> data]

(***************************************************************************)
(* The argument mapping: args is what json.loads returned (or {}).  A dict *)
(* is [t |-> "dict", d |-> r] where DOMAIN r is its set of keys.           *)
(***************************************************************************)
Dict(d) == [t |-> "dict", d |-> d]
EmptyDict == Dict([k \in {} |-> None])

\* key in args (lines 57, 93-99, 128, 166-172): [exc, v]
Contains(args, key) ==
    CASE args.t = "dict" -> [exc |-> "none", v |-> key \in DOMAIN args.d]
      [] args.t = "list" ->
            [exc |-> "none", v |-> \E i \in DOMAIN args.items : args.items[i] = Str(key)]
      [] args.t = "int" -> [exc |-> "TypeError", v |-> FALSE]
      [] args.t = "null" -> [exc |-> "TypeError", v |-> FALSE]

\* args[key] (lines 61, 103-105, 132, 176-178): [exc, v]
Subscript(args, key) ==
    IF args.t = "dict"
    THEN IF key \in DOMAIN args.d
         THEN [exc |-> "none", v |-> args.d[key]]
         ELSE [exc |-> "KeyError", v |-> None]
    ELSE [exc |-> "TypeError", v |-> None]

\* args.get(key, default) (lines 62-63): [exc, v]
Get(args, key, default) ==
    IF args.t = "dict"
    THEN [exc |-> "none", v |-> IF key \in DOMAIN args.d THEN args.d[key] ELSE default]
    ELSE [exc |-> "AttributeError", v |-> None]

\* enumerate(inputs) (line 74): the items of a list; a one-character string
\* iterates to itself, the empty string to nothing; other values raise
Iterate(v) ==
    CASE v.t = "list" -> [exc |-> "none", items |-> v.items]
      [] v.t = "str" -> [exc |-> "none", items |-> IF v = Str("") THEN <<>> ELSE <<v>>]
      [] OTHER -> [exc |-> "TypeError", items |-> <<>>]

(***************************************************************************)
(* The host session: a sequence of nodes in creation order.  A node has a  *)
(* class, its wired inputs (slot i is inputs[i+1], holding a node id) and  *)
(* the values of its knobs; its name is the value of its "name" knob.      *)
(* The host API is not part of the script: it is modelled as far as the    *)
(* script uses it.  A call raises where the host checks its arguments (a   *)
(* name that is no string, a node class it does not know, a value of a     *)
(* type the knob does not take), where the render fails, and where a knob  *)
(* cannot be read; these are the exceptions the handlers' except clauses   *)
(* are there for.  toNode returns the earliest node bearing the name.      *)
(***************************************************************************)
NodeClasses == {"Blur", "Write"}

\* k.Class() of the knob named knob
KnobClass(knob) ==
    CASE knob = "name" -> "String_Knob"
      [] knob = "file" -> "File_Knob"
      [] knob = "size" -> "Double_Knob"
      [] knob = "channels" -> "ChannelMask_Knob"

DefaultVals(cls, k) ==
    IF cls = "Write"
    THEN [name |-> AutoName(cls, k), file |-> Str(""), channels |-> Str("rgba")]
    ELSE [name |-> AutoName(cls, k), size |-> Num(0), channels |-> Str("rgba")]

NewNode(cls, k) == [cls |-> cls, inputs |-> <<>>, vals |-> DefaultVals(cls, k)]

NodeRef(id) == [t |-> "node", id |-> id]

\* nuke.createNode(node_type, inpanel=False) (line 67): [exc, session, node]
nuke_createNode(s, node_type) ==
    IF node_type.t # "str"
    THEN [exc |-> "TypeError", session |-> s, node |-> None]
    ELSE IF ~(\E c \in NodeClasses : node_type = Str(c))
    THEN [exc |-> "RuntimeError", session |-> s, node |-> None]
    ELSE [exc |-> "none",
          session |-> Append(s, NewNode(node_type.s, Len(s) + 1)),
          node |-> NodeRef(Len(s) + 1)]

\* nuke.toNode(name) (lines 75, 108, 135, 181): [exc, node]; None when absent
nuke_toNode(s, name) ==
    IF name.t # "str"
    THEN [exc |-> "TypeError", node |-> None]
    ELSE LET hits == {i \in DOMAIN s : s[i].vals.name = name}
         IN  [exc |-> "none",
              node |-> IF hits = {} THEN None
                       ELSE NodeRef(CHOOSE i \in hits : \A j \in hits : i <= j)]

\* node.knobs() (lines 113, 149): the names of the node's knobs
node_knobs(s, node) == DOMAIN s[node.id].vals

\* knob_name in node.knobs() (line 113)
InKnobs(s, node, knob_name) ==
    knob_name.t = "str" /\ \E k \in node_knobs(s, node) : knob_name = Str(k)

\* what a knob of the given class accepts in setValue
Accepts(knobClass, value) ==
    IF knobClass \in {"Double_Knob", "Int_Knob", "Boolean_Knob"}
    THEN value.t = "int"
    ELSE value.t = "str"

\* node[knob].setValue(value) (lines 71, 117): [exc, session]
knob_setValue(s, node, knob, value) ==
    IF knob \notin node_knobs(s, node)
    THEN [exc |-> "NameError", session |-> s]
    ELSE IF ~Accepts(KnobClass(knob), value)
    THEN [exc |-> "TypeError", session |-> s]
    ELSE [exc |-> "none", session |-> [s EXCEPT ![node.id].vals[knob] = value]]

\* node.setInput(i, input_node) (line 77)
node_setInput(s, node, i, input_node) ==
    [s EXCEPT ![node.id].inputs =
        IF i + 1 \in DOMAIN @ THEN [@ EXCEPT ![i + 1] = input_node.id]
        ELSE Append(@, input_node.id)]

node_name(s, node) == s[node.id].vals.name
node_Class(s, node) == s[node.id].cls
\* node.xpos(), node.ypos(): the host places a node by its creation order
node_xpos(s, node) == Num(node.id)
node_ypos(s, node) == Num(0)

\* node[knob].value() (lines 154, 156, 197): [exc, v]; e.unreadable are the
\* knobs whose read raises in this invocation
knob_value(s, e, node, knob) ==
    IF knob \notin node_knobs(s, node) \/ knob \in e.unreadable
    THEN [exc |-> "RuntimeError", v |-> None]
    ELSE [exc |-> "none", v |-> s[node.id].vals[knob]]

\* nuke.execute(write_node, first, last) (line 191): raises when rendering fails
nuke_execute(e) == IF e.render = "ok" THEN "none" ELSE "RuntimeError"

(***************************************************************************)
(* Results of a handler: the session it leaves, the envelopes it printed,  *)
(* the host calls it made and the exception that escaped it ("none" when   *)
(* it returned).                                                           *)
(***************************************************************************)
Ret(s, out, cs) == [session |-> s, out |-> out, calls |-> cs, exc |-> "none"]
Raise(s, out, cs, x) == [session |-> s, out |-> out, calls |-> cs, exc |-> x]

\* a message without interpolation
Fixed(text) == [t |-> "msg", text |-> text]
\* "<key> parameter is required"
Required(key) == [t |-> "msg", key |-> key, text |-> " parameter is required"]

\* try: body / except Exception as e: respond(False, None, f"<text>{str(e)}")
Try(body, text) ==
    IF body.exc = "none" THEN body
    ELSE [body EXCEPT !.out = Append(@, respond(FALSE, None, Msg(text, ExcText(body.exc)))),
                      !.exc = "none"]

(***************************************************************************)
(* create_node (lines 56-90)                                                *)
(***************************************************************************)
RECURSIVE wire_inputs_continuing(_, _, _, _, _)
\* variant: the loop goes on after reporting an input that was not found
wire_inputs_continuing(items, i, node, s, cs) ==
    IF i >= Len(items)
    THEN [session |-> s, calls |-> cs, out |-> <<>>, exc |-> "none", returned |-> FALSE]
    ELSE LET input_name == items[i + 1]
             look == nuke_toNode(s, input_name)
             cs1 == Append(cs, [op |-> "toNode", arg |-> input_name])
         IN  IF look.exc # "none"
             THEN [session |-> s, calls |-> cs1, out |-> <<>>, exc |-> look.exc,
                   returned |-> FALSE]
             ELSE IF Truthy(look.node)
             THEN wire_inputs_continuing(items, i + 1, node,
                                         node_setInput(s, node, i, look.node),
                                         Append(cs1, [op |-> "setInput", node |-> node.id,
                                                      slot |-> i, src |-> look.node.id]))
             ELSE [wire_inputs_continuing(items, i + 1, node, s, cs1) EXCEPT
                      !.out = <<respond(FALSE, None, Msg("Input node not found: ", input_name))>>,
                      !.returned = TRUE]

RECURSIVE wire_inputs(_, _, _, _, _)
\* the loop of lines 74-80 from index i on; returned: the handler returned
\* from inside the loop
wire_inputs(items, i, node, s, cs) ==
    IF i >= Len(items)
    THEN [session |-> s, calls |-> cs, out |-> <<>>, exc |-> "none", returned |-> FALSE]
    ELSE LET input_name == items[i + 1]
             look == nuke_toNode(s, input_name)
             cs1 == Append(cs, [op |-> "toNode", arg |-> input_name])
         IN  IF look.exc # "none"
             THEN [session |-> s, calls |-> cs1, out |-> <<>>, exc |-> look.exc,
                   returned |-> FALSE]
             ELSE IF Truthy(look.node)
             THEN wire_inputs(items, i + 1, node, node_setInput(s, node, i, look.node),
                              Append(cs1, [op |-> "setInput", node |-> node.id,
                                           slot |-> i, src |-> look.node.id]))
             ELSE [session |-> s, calls |-> cs1,
                   out |-> <<respond(FALSE, None, Msg("Input node not found: ", input_name))>>,
                   exc |-> "none", returned |-> TRUE]

\* variant: the position is left out
create_node_info_without_position(s, node) ==
    [name |-> node_name(s, node), type |-> Str(node_Class(s, node))]

\* the node_info of lines 83-87
create_node_info(s, node) ==
    [name |-> node_name(s, node), type |-> Str(node_Class(s, node)),
     position |-> [x |-> node_xpos(s, node), y |-> node_ypos(s, node)]]

\* the try body, lines 66-88
create_node_body(node_type, name, inputs, s) ==
    LET cr == nuke_createNode(s, node_type)
        c0 == <<[op |-> "createNode", arg |-> node_type]>>
    IN  IF cr.exc # "none" THEN Raise(s, <<>>, c0, cr.exc)
        ELSE
        LET node == cr.node
            sv == IF Truthy(name) THEN knob_setValue(cr.session, node, "name", name)
                  ELSE [exc |-> "none", session |-> cr.session]
            c1 == IF Truthy(name)
                  THEN Append(c0, [op |-> "setValue", node |-> node.id,
                                   knob |-> "name", arg |-> name])
                  ELSE c0
        IN  IF sv.exc # "none" THEN Raise(sv.session, <<>>, c1, sv.exc)
            ELSE
            LET it == Iterate(inputs)
            IN  IF it.exc # "none" THEN Raise(sv.session, <<>>, c1, it.exc)
                ELSE
                LET w == wire_inputs(it.items, 0, node, sv.session, c1)
                IN  IF w.exc # "none" THEN Raise(w.session, <<>>, w.calls, w.exc)
                    ELSE IF w.returned THEN Ret(w.session, w.out, w.calls)
                    ELSE Ret(w.session,
                             <<respond(TRUE, create_node_info(w.session, node), None)>>,
                             w.calls)

create_node(args, s, e) ==
    LET has == Contains(args, "nodeType")
    IN  IF has.exc # "none" THEN Raise(s, <<>>, <<>>, has.exc)
        ELSE IF ~has.v THEN Ret(s, <<respond(FALSE, None, Required("nodeType"))>>, <<>>)
        ELSE
        LET node_type == Subscript(args, "nodeType")
            name == Get(args, "name", None)
            inputs == Get(args, "inputs", List(<<>>))
        IN  IF node_type.exc # "none" THEN Raise(s, <<>>, <<>>, node_type.exc)
            ELSE IF name.exc # "none" THEN Raise(s, <<>>, <<>>, name.exc)
            ELSE IF inputs.exc # "none" THEN Raise(s, <<>>, <<>>, inputs.exc)
            ELSE Try(create_node_body(node_type.v, name.v, inputs.v, s),
                     "Error creating node: ")

\* the checks of required keys that open a handler (lines 57-59, 93-101,
\* 128-130, 166-174): the first key of keys that is not in args
RECURSIVE first_missing_checked_backwards(_, _)
\* variant: the keys are checked from the last to the first
first_missing_checked_backwards(args, keys) ==
    IF keys = <<>> THEN [exc |-> "none", missing |-> FALSE, key |-> ""]
    ELSE LET k == keys[Len(keys)]
             has == Contains(args, k)
         IN  IF has.exc # "none" THEN [exc |-> has.exc, missing |-> FALSE, key |-> ""]
             ELSE IF ~has.v THEN [exc |-> "none", missing |-> TRUE, key |-> k]
             ELSE first_missing_checked_backwards(args, SubSeq(keys, 1, Len(keys) - 1))

RECURSIVE first_missing(_, _)
first_missing(args, keys) ==
    IF keys = <<>> THEN [exc |-> "none", missing |-> FALSE, key |-> ""]
    ELSE LET has == Contains(args, Head(keys))
         IN  IF has.exc # "none" THEN [exc |-> has.exc, missing |-> FALSE, key |-> ""]
             ELSE IF ~has.v THEN [exc |-> "none", missing |-> TRUE, key |-> Head(keys)]
             ELSE first_missing(args, Tail(keys))

(***************************************************************************)
(* set_knob_value (lines 92-125)                                            *)
(***************************************************************************)
\* variant: node and knob change places in the echo
set_knob_value_echo_swapped(node_name_, knob_name, value) ==
    [node |-> knob_name, knob |-> node_name_, value |-> value]

\* the data of the success response, lines 119-123
set_knob_value_echo(node_name_, knob_name, value) ==
    [node |-> node_name_, knob |-> knob_name, value |-> value]

\* the try body, lines 108-123
set_knob_value_body(node_name_, knob_name, value, s) ==
    LET look == nuke_toNode(s, node_name_)
        c0 == <<[op |-> "toNode", arg |-> node_name_]>>
    IN  IF look.exc # "none" THEN Raise(s, <<>>, c0, look.exc)
        ELSE IF ~Truthy(look.node)
        THEN Ret(s, <<respond(FALSE, None, Msg("Node not found: ", node_name_))>>, c0)
        ELSE IF ~InKnobs(s, look.node, knob_name)
        THEN Ret(s, <<respond(FALSE, None, Msg("Knob not found: ", knob_name))>>, c0)
        ELSE
        LET sv == knob_setValue(s, look.node, knob_name.s, value)
            c1 == Append(c0, [op |-> "setValue", node |-> look.node.id,
                              knob |-> knob_name.s, arg |-> value])
        IN  IF sv.exc # "none" THEN Raise(sv.session, <<>>, c1, sv.exc)
            ELSE Ret(sv.session,
                     <<respond(TRUE, set_knob_value_echo(node_name_, knob_name, value),
                               None)>>,
                     c1)

set_knob_value(args, s, e) ==
    LET chk == first_missing(args, <<"nodeName", "knobName", "value">>)
    IN  IF chk.exc # "none" THEN Raise(s, <<>>, <<>>, chk.exc)
        ELSE IF chk.missing THEN Ret(s, <<respond(FALSE, None, Required(chk.key))>>, <<>>)
        ELSE
        LET node_name_ == Subscript(args, "nodeName")
            knob_name == Subscript(args, "knobName")
            value == Subscript(args, "value")
        IN  IF node_name_.exc # "none" THEN Raise(s, <<>>, <<>>, node_name_.exc)
            ELSE IF knob_name.exc # "none" THEN Raise(s, <<>>, <<>>, knob_name.exc)
            ELSE IF value.exc # "none" THEN Raise(s, <<>>, <<>>, value.exc)
            ELSE Try(set_knob_value_body(node_name_.v, knob_name.v, value.v, s),
                     "Error setting knob value: ")

(***************************************************************************)
(* get_node (lines 127-163)                                                 *)
(***************************************************************************)
\* the knob classes whose value is copied (lines 153, 155)
SerializableKnobClasses ==
    {"String_Knob", "File_Knob", "Text_Knob",
     "Int_Knob", "Double_Knob", "Boolean_Knob", "XY_Knob"}

\* variant: the class of the knob is not looked at
knob_collected_of_any_class(s, e, node, knob) ==
    knob_value(s, e, node, knob).exc = "none"

\* one pass of the loop body, lines 150-159: does it add knob to the map?
knob_collected(s, e, node, knob) ==
    /\ KnobClass(knob) \in SerializableKnobClasses
    /\ knob_value(s, e, node, knob).exc = "none"

\* node_info["knobs"] after the loop of lines 149-159
collect_knobs(s, e, node) ==
    [knob \in {k \in node_knobs(s, node) : knob_collected(s, e, node, k)} |->
        knob_value(s, e, node, knob).v]

\* the try body, lines 135-161
get_node_body(node_name_, s, e) ==
    LET look == nuke_toNode(s, node_name_)
        c0 == <<[op |-> "toNode", arg |-> node_name_]>>
    IN  IF look.exc # "none" THEN Raise(s, <<>>, c0, look.exc)
        ELSE IF ~Truthy(look.node)
        THEN Ret(s, <<respond(FALSE, None, Msg("Node not found: ", node_name_))>>, c0)
        ELSE Ret(s,
                 <<respond(TRUE,
                           [name |-> node_name(s, look.node),
                            type |-> Str(node_Class(s, look.node)),
                            position |-> [x |-> node_xpos(s, look.node),
                                          y |-> node_ypos(s, look.node)],
                            knobs |-> collect_knobs(s, e, look.node)],
                           None)>>,
                 c0)

get_node(args, s, e) ==
    LET chk == first_missing(args, <<"nodeName">>)
    IN  IF chk.exc # "none" THEN Raise(s, <<>>, <<>>, chk.exc)
        ELSE IF chk.missing THEN Ret(s, <<respond(FALSE, None, Required(chk.key))>>, <<>>)
        ELSE
        LET node_name_ == Subscript(args, "nodeName")
        IN  IF node_name_.exc # "none" THEN Raise(s, <<>>, <<>>, node_name_.exc)
            ELSE Try(get_node_body(node_name_.v, s, e), "Error getting node info: ")

(***************************************************************************)
(* execute (lines 165-200)                                                  *)
(***************************************************************************)
\* f"Node {write_node_name} is not a Write node"
NotAWriteNode(name) ==
    [t |-> "msg", text |-> "Node ", arg |-> name, tail |-> " is not a Write node"]

\* variant: the class is not checked
not_a_write_node_unchecked(s, node) == FALSE

\* write_node.Class() != "Write" (line 186)
not_a_write_node(s, node) == node_Class(s, node) # "Write"

\* the try body, lines 181-198
execute_body(write_node_name, frame_start, frame_end, s, e) ==
    LET look == nuke_toNode(s, write_node_name)
        c0 == <<[op |-> "toNode", arg |-> write_node_name]>>
    IN  IF look.exc # "none" THEN Raise(s, <<>>, c0, look.exc)
        ELSE IF ~Truthy(look.node)
        THEN Ret(s, <<respond(FALSE, None, Msg("Write node not found: ", write_node_name))>>, c0)
        ELSE IF not_a_write_node(s, look.node)
        THEN Ret(s, <<respond(FALSE, None, NotAWriteNode(write_node_name))>>, c0)
        ELSE
        LET first == int(frame_start)
            last == int(frame_end)
        IN  IF first.exc # "none" THEN Raise(s, <<>>, c0, first.exc)
            ELSE IF last.exc # "none" THEN Raise(s, <<>>, c0, last.exc)
            ELSE
            LET c1 == Append(c0, [op |-> "execute", node |-> look.node.id,
                                  first |-> first.n, last |-> last.n])
                run == nuke_execute(e)
                path == knob_value(s, e, look.node, "file")
            IN  IF run # "none" THEN Raise(s, <<>>, c1, run)
                ELSE IF path.exc # "none" THEN Raise(s, <<>>, c1, path.exc)
                ELSE Ret(s,
                         <<respond(TRUE,
                                   [node |-> write_node_name,
                                    rendered |-> TRUE,
                                    frameRange |-> [start |-> frame_start,
                                                    end |-> frame_end],
                                    outputPath |-> path.v],
                                   None)>>,
                         c1)

execute(args, s, e) ==
    LET chk == first_missing(args, <<"writeNodeName", "frameRangeStart", "frameRangeEnd">>)
    IN  IF chk.exc # "none" THEN Raise(s, <<>>, <<>>, chk.exc)
        ELSE IF chk.missing THEN Ret(s, <<respond(FALSE, None, Required(chk.key))>>, <<>>)
        ELSE
        LET write_node_name == Subscript(args, "writeNodeName")
            frame_start == Subscript(args, "frameRangeStart")
            frame_end == Subscript(args, "frameRangeEnd")
        IN  IF write_node_name.exc # "none" THEN Raise(s, <<>>, <<>>, write_node_name.exc)
            ELSE IF frame_start.exc # "none" THEN Raise(s, <<>>, <<>>, frame_start.exc)
            ELSE IF frame_end.exc # "none" THEN Raise(s, <<>>, <<>>, frame_end.exc)
            ELSE Try(execute_body(write_node_name.v, frame_start.v, frame_end.v, s, e),
                     "Error executing write node: ")

(***************************************************************************)
(* main (lines 17-53)                                                       *)
(***************************************************************************)
\* json.loads(sys.argv[2]) (line 28).  A text is [wf, nesting, val]: wf says
\* whether it is valid JSON, val is the value it denotes when it is, and
\* nesting = "deep" says its brackets nest beyond the interpreter's recursion
\* limit before the scanner meets any syntax error, which raises
\* RecursionError (not a JSONDecodeError) from the scanner.
json_loads(text) ==
    IF text.nesting = "deep" THEN [exc |-> "RecursionError", v |-> None]
    ELSE IF ~text.wf THEN [exc |-> "JSONDecodeError", v |-> None]
    ELSE [exc |-> "none", v |-> text.val]

\* import nuke (lines 35-39)
import_nuke(e) == IF e.module = "loadable" THEN "none" ELSE "ImportError"

\* a result of main: a handler's result and the handlers that ran
Ran(r, hs) ==
    [session |-> r.session, out |-> r.out, calls |-> r.calls, exc |-> r.exc,
     handlers |-> hs]

\* the command chain of lines 42-51
dispatch(command, args, s, e) ==
    IF command = "createNode" THEN Ran(create_node(args, s, e), <<"create_node">>)
    ELSE IF command = "setKnobValue" THEN Ran(set_knob_value(args, s, e), <<"set_knob_value">>)
    ELSE IF command = "getNode" THEN Ran(get_node(args, s, e), <<"get_node">>)
    ELSE IF command = "execute" THEN Ran(execute(args, s, e), <<"execute">>)
    ELSE Ran(Ret(s, <<respond(FALSE, None, Msg("Unknown command: ", Str(command)))>>, <<>>),
             <<>>)

\* lines 33-53: the outer try
main_try(command, args, s, e) ==
    IF import_nuke(e) = "ImportError"
    THEN Ran(Ret(s, <<respond(FALSE, None, Fixed("Failed to import nuke module. Make sure this script is run within Nuke."))>>, <<>>), <<>>)
    ELSE LET r == dispatch(command, args, s, e)
         IN  IF r.exc = "none" THEN r
             ELSE [r EXCEPT !.out = Append(@, respond(FALSE, None,
                                       Msg("Error executing command: ", ExcText(r.exc)))),
                            !.exc = "none"]

\* sys.argv is <<script, command, text, ...>>
main(av, s, e) ==
    IF Len(av) < 2
    THEN Ran(Ret(s, <<respond(FALSE, None, Fixed("No command specified"))>>, <<>>), <<>>)
    ELSE LET command == av[2]
             parsed == IF Len(av) > 2 THEN json_loads(av[3])
                       ELSE [exc |-> "none", v |-> EmptyDict]
         IN  IF parsed.exc = "JSONDecodeError"
             THEN Ran(Ret(s, <<respond(FALSE, None,
                                Msg("Invalid JSON arguments: ", ExcText(parsed.exc)))>>, <<>>),
                      <<>>)
             ELSE IF parsed.exc # "none"
             THEN Ran(Raise(s, <<>>, <<>>, parsed.exc), <<>>)
             ELSE main_try(command, parsed.v, s, e)

(***************************************************************************)
(* The requests of the model: sys.argv and the environment of one process. *)
(***************************************************************************)
Script == "nuke_bridge.py"

\* a well-formed, shallow JSON text denoting v
Text(v) == [wf |-> TRUE, nesting |-> "shallow", val |-> v]
Malformed == [wf |-> FALSE, nesting |-> "shallow", val |-> None]
DeepValid == [wf |-> TRUE, nesting |-> "deep", val |-> List(<<>>)]
DeepMalformed == [wf |-> FALSE, nesting |-> "deep", val |-> None]

\* the records over every subset of the keys of fields, fields[k] being the
\* values of key k
Dicts(fields) ==
    UNION {[D -> UNION {fields[k] : k \in D}] : D \in SUBSET DOMAIN fields}

DictsOf(fields) ==
    {Dict(d) : d \in {f \in Dicts(fields) : \A k \in DOMAIN f : f[k] \in fields[k]}}

NodeNames == {Str("A"), Str("Z"), AutoName("Blur", 1)}

RECURSIVE SeqsUpTo(_, _)
SeqsUpTo(S, n) ==
    IF n = 0 THEN {<<>>}
    ELSE LET shorter == SeqsUpTo(S, n - 1)
         IN  shorter \cup {Append(q, x) : q \in {r \in shorter : Len(r) = n - 1}, x \in S}

CreateArgs ==
    DictsOf([nodeType |-> {Str("Blur"), Str("Write"), Str("Bogus")},
             name |-> {Str(""), Str("A"), Num(5)},
             inputs |-> {None} \cup {List(q) : q \in SeqsUpTo(NodeNames \cup {Num(5)},
                                                               MaxInputs)}])

SetKnobArgs ==
    DictsOf([nodeName |-> NodeNames \cup {Num(5)},
             knobName |-> {Str("name"), Str("size"), Str("file"), Str("channels"),
                           Str("nope")},
             value |-> {Str("A"), Num(5)}])

GetNodeArgs == DictsOf([nodeName |-> NodeNames \cup {Num(5)}])

ExecuteArgs ==
    DictsOf([writeNodeName |-> {Str("A"), Str("Z")},
             frameRangeStart |-> {Num(1), Numeral(2), Str("A"), None},
             frameRangeEnd |-> {Num(3), Numeral(2), Str("A"), None}])

\* arguments that are valid JSON but no object
NonDictArgs ==
    {List(<<>>), Num(5), None,
     List(<<Str("nodeType"), Str("nodeName"), Str("knobName"), Str("value"),
            Str("writeNodeName"), Str("frameRangeStart"), Str("frameRangeEnd")>>)}

Commands == {"createNode", "setKnobValue", "getNode", "execute"}
OtherCommands == {"createnode", "render", ""}

Env(module, render, unreadable) ==
    [module |-> module, render |-> render, unreadable |-> unreadable]
Healthy == Env("loadable", "ok", {})
Modules == {"loadable", "absent"}

Request(av, e) == [argv |-> av, env |-> e]

Requests ==
    \* no command, whatever the host
    {Request(<<Script>>, Env(m, "ok", {})) : m \in Modules}
    \* each command with the arguments it reads
    \cup {Request(<<Script, "createNode", Text(a)>>, Healthy) : a \in CreateArgs}
    \cup {Request(<<Script, "setKnobValue", Text(a)>>, Healthy) : a \in SetKnobArgs}
    \cup {Request(<<Script, "getNode", Text(a)>>, Env("loadable", "ok", u)) :
             a \in GetNodeArgs, u \in SUBSET {"name", "size", "file"}}
    \cup {Request(<<Script, "execute", Text(a)>>, Env("loadable", r, u)) :
             a \in ExecuteArgs, r \in {"ok", "error"}, u \in {{}, {"file"}}}
    \* any command name with no text, an extra argument, texts that do not
    \* parse to an object, and an absent host module
    \cup {Request(<<Script, c>>, Env(m, "ok", {})) :
             c \in Commands \cup OtherCommands, m \in Modules}
    \cup {Request(<<Script, c, x>>, Env(m, "ok", {})) :
             c \in Commands \cup OtherCommands, m \in Modules,
             x \in {Malformed, DeepValid, DeepMalformed, Text(EmptyDict)}
                   \cup {Text(v) : v \in NonDictArgs}}
    \cup {Request(<<Script, "getNode", Text(Dict([nodeName |-> Str("A")])), Malformed>>,
                  Env(m, "ok", {})) : m \in Modules}
    \cup {Request(<<Script, c, Text(a)>>, Env("absent", "ok", {})) :
             c \in Commands, a \in {Dict([nodeName |-> Str("A")]),
                                    Dict([nodeType |-> Str("Blur")])}}

(***************************************************************************)
(* Host sessions a process may find, built with the host's own operations. *)
(***************************************************************************)
Created(s, cls) == nuke_createNode(s, Str(cls)).session
Renamed(s, id, name) == knob_setValue(s, NodeRef(id), "name", name).session
Valued(s, id, knob, v) == knob_setValue(s, NodeRef(id), knob, v).session

InitSessions ==
    {<<>>,
     Created(<<>>, "Blur"),
     Renamed(Created(<<>>, "Blur"), 1, Str("A")),
     Valued(Renamed(Created(<<>>, "Write"), 1, Str("A")), 1, "file", Str("A")),
     Renamed(Created(Created(<<>>, "Blur"), "Write"), 2, Str("A")),
     node_setInput(Renamed(Created(Created(<<>>, "Write"), "Blur"), 2, Str("A")),
                   NodeRef(2), 0, NodeRef(1))}

(***************************************************************************)
(* The state machine: a process is launched, runs main to its end, exits.  *)
(***************************************************************************)
Init ==
    /\ session \in InitSessions
    /\ before = session
    /\ pc = "idle"
    /\ argv = <<Script>>
    /\ env = Healthy
    /\ stdout = <<>>
    /\ calls = <<>>
    /\ handlers = <<>>
    /\ exc = "none"
    /\ launched = 0

\* the caller starts the script (lines 202-203) with its arguments
Launch(rq) ==
    /\ pc = "idle"
    /\ launched < MaxInvocations
    /\ launched' = launched + 1
    /\ pc' = "running"
    /\ argv' = rq.argv
    /\ env' = rq.env
    /\ before' = session
    /\ stdout' = <<>>
    /\ calls' = <<>>
    /\ handlers' = <<>>
    /\ exc' = "none"
    /\ UNCHANGED session

\* main() runs to its end, or to the exception that escapes it
Run ==
    /\ pc = "running"
    /\ LET r == main(argv, session, env)
       IN  /\ session' = r.session
           /\ stdout' = r.out
           /\ calls' = r.calls
           /\ handlers' = r.handlers
           /\ exc' = r.exc
    /\ pc' = "exited"
    /\ UNCHANGED <<argv, env, before, launched>>

\* the process is gone with its arguments and output; the host session stays
\* for the next one
Reap ==
    /\ pc = "exited"
    /\ pc' = "idle"
    /\ before' = session
    /\ argv' = <<Script>>
    /\ env' = Healthy
    /\ stdout' = <<>>
    /\ calls' = <<>>
    /\ handlers' = <<>>
    /\ exc' = "none"
    /\ UNCHANGED <<session, launched>>

Next ==
    \/ \E rq \in Requests : Launch(rq)
    \/ Run
    \/ Reap

Spec == Init /\ [][Next]_vars

\* the exit status of the process: 1 when an exception escaped main
ExitCode == IF exc = "none" THEN 0 ELSE 1

(***************************************************************************)
(* Vocabulary of the properties: what the process was asked, read off its  *)
(* arguments and the session it found.                                     *)
(***************************************************************************)
Exited == pc = "exited"
\* the second argument is valid JSON (or there is none)
ValidJson == Len(argv) > 2 => argv[3].wf
\* the value the second argument denotes ({} when there is none)
ArgsValue == IF Len(argv) > 2 THEN argv[3].val ELSE EmptyDict
\* the arguments are a JSON object the interpreter can parse
ObjectArgs ==
    /\ Len(argv) > 2 => argv[3].wf /\ argv[3].nesting = "shallow"
    /\ ArgsValue.t = "dict"
\* the process exited after command c, given a JSON object, reached a
\* loadable host
Asked(c) ==
    /\ Exited
    /\ Len(argv) >= 2
    /\ argv[2] = c
    /\ ObjectArgs
    /\ env.module = "loadable"
Arg(k) == ArgsValue.d[k]
HasArg(k) == k \in DOMAIN ArgsValue.d
RequiredKeys(c) ==
    CASE c = "createNode" -> <<"nodeType">>
      [] c = "setKnobValue" -> <<"nodeName", "knobName", "value">>
      [] c = "getNode" -> <<"nodeName">>
      [] c = "execute" -> <<"writeNodeName", "frameRangeStart", "frameRangeEnd">>
AllRequired(c) == \A i \in DOMAIN RequiredKeys(c) : HasArg(RequiredKeys(c)[i])
HandlerOf(c) ==
    CASE c = "createNode" -> "create_node"
      [] c = "setKnobValue" -> "set_knob_value"
      [] c = "getNode" -> "get_node"
      [] c = "execute" -> "execute"
\* the one response of the process is a failure whose message starts with text
FailsWith(text) ==
    /\ Len(stdout) = 1
    /\ ~stdout[1].success
    /\ "error" \in DOMAIN stdout[1]
    /\ stdout[1].error.text = text
Succeeds == Len(stdout) = 1 /\ stdout[1].success
Fails == Len(stdout) = 1 /\ ~stdout[1].success
\* the node a name resolves to in session s, None when it resolves to none
Found(s, name) == nuke_toNode(s, name).node
Resolves(s, name) == nuke_toNode(s, name).exc = "none" /\ Found(s, name) # None
\* the node has a parameter of that name
HasKnob(s, node, name) ==
    name.t = "str" /\ \E k \in DOMAIN s[node.id].vals : name = Str(k)

(***************************************************************************)
(* C1: every invocation, whatever its arguments and whatever the host      *)
(* does, ends having printed exactly one envelope, no exception having     *)
(* escaped main (exit code 0).                                             *)
(* Refuted: json.loads at line 28 runs outside the try of line 33, and     *)
(* only JSONDecodeError is caught there.                                   *)
(***************************************************************************)
C1_ExactlyOneEnvelope == Exited => Len(stdout) = 1 /\ ExitCode = 0

\* C1, what does hold: at most one envelope is ever printed, and exactly one
\* with exit code 0 unless json.loads raised something other than
\* JSONDecodeError
C1_OneEnvelopeUnlessParserOverflow ==
    Exited =>
        /\ Len(stdout) <= 1
        /\ (Len(argv) > 2 /\ argv[3].nesting = "deep")
              <=> (Len(stdout) = 0 /\ ExitCode = 1)

(***************************************************************************)
(* C3: the dispatcher's checks apply in the order no command, malformed    *)
(* JSON, unloadable host, unknown command; the first that applies decides  *)
(* the response, no handler runs and no host call is made; otherwise       *)
(* exactly the handler named by the command runs.                          *)
(***************************************************************************)
C3_DispatchOrder ==
    Exited =>
        IF Len(argv) < 2
        THEN FailsWith("No command specified") /\ handlers = <<>> /\ calls = <<>>
        ELSE IF ~ValidJson
        THEN FailsWith("Invalid JSON arguments: ") /\ handlers = <<>> /\ calls = <<>>
        ELSE IF env.module # "loadable"
        THEN /\ FailsWith("Failed to import nuke module. Make sure this script is run within Nuke.")
             /\ handlers = <<>> /\ calls = <<>>
        ELSE IF argv[2] \notin Commands
        THEN /\ FailsWith("Unknown command: ") /\ stdout[1].error.arg = Str(argv[2])
             /\ handlers = <<>> /\ calls = <<>>
        ELSE handlers = <<HandlerOf(argv[2])>>

\* C3, what does hold: the same order for every text within the parser's
\* recursion limit
C3_DispatchOrderShallow ==
    (Len(argv) > 2 => argv[3].nesting = "shallow") => C3_DispatchOrder

(***************************************************************************)
(* C4: given no arguments at all, the response is                          *)
(* {"success": false, "error": "No command specified"}.                    *)
(***************************************************************************)
C4_NoCommandLiteral ==
    Exited /\ Len(argv) < 2 =>
        stdout = <<[success |-> FALSE, error |-> Fixed("No command specified")]>>

\* C4 as amended: the response also carries "data": null
C4_NoCommand ==
    Exited /\ Len(argv) < 2 =>
        stdout = <<[success |-> FALSE, data |-> None,
                    error |-> Fixed("No command specified")]>>

C4_Witness == Exited /\ Len(argv) < 2 /\ Len(stdout) = 1

(***************************************************************************)
(* C10: every printed envelope has the keys success and data; a failure    *)
(* has data null and a non-empty error string; a success has no error key  *)
(* and a data object that is not null.                                     *)
(***************************************************************************)
C10_WellFormedEnvelope ==
    \A i \in DOMAIN stdout :
        LET r == stdout[i]
        IN  /\ {"success", "data"} \subseteq DOMAIN r
            /\ DOMAIN r \subseteq {"success", "data", "error"}
            /\ ~r.success =>
                  /\ r.data = None
                  /\ "error" \in DOMAIN r
                  /\ r.error.t = "msg"
                  /\ \/ r.error.text # ""
                     \/ "key" \in DOMAIN r.error /\ r.error.key # ""
            /\ r.success =>
                  /\ "error" \notin DOMAIN r
                  /\ r.data # None
                  /\ "t" \notin DOMAIN r.data

\* C10's case: both a handler's own except clause and a success were printed
C10_Witness ==
    /\ Exited
    /\ Len(stdout) = 1
    /\ ~stdout[1].success
    /\ stdout[1].error.text = "Error executing write node: "
    /\ \E j \in DOMAIN calls : calls[j].op = "execute"

(***************************************************************************)
(* C2: each of the four commands, given all its required keys and a        *)
(* reachable host, answers success: true with the documented data keys.    *)
(***************************************************************************)
DocumentedKeys(c) ==
    CASE c = "createNode" -> {"name", "type", "position"}
      [] c = "setKnobValue" -> {"node", "knob", "value"}
      [] c = "getNode" -> {"name", "type", "position", "knobs"}
      [] c = "execute" -> {"node", "rendered", "frameRange", "outputPath"}

\* C2: all required keys and a reachable host give success: true and the
\* documented keys
C2_AlwaysSucceeds ==
    \A c \in Commands :
        Asked(c) /\ AllRequired(c) =>
            Succeeds /\ DocumentedKeys(c) \subseteq DOMAIN stdout[1].data

\* the name createNode's node bears once created
NewName ==
    IF HasArg("name") /\ Truthy(Arg("name")) THEN Arg("name")
    ELSE AutoName(Arg("nodeType").s, Len(before) + 1)
\* the host knows the class and accepts the name
Creatable ==
    /\ \E cls \in NodeClasses : Arg("nodeType") = Str(cls)
    /\ HasArg("name") /\ Truthy(Arg("name")) => Arg("name").t = "str"
\* a createNode input names the new node or a node that was there before
EntryResolves(x) ==
    /\ x.t = "str"
    /\ x = NewName \/ \E i \in DOMAIN before : before[i].vals.name = x

\* the host can carry the request out: what it names exists, what it passes
\* is of the type the host takes, and no host call raises
Feasible(c) ==
    CASE c = "createNode" ->
            /\ Creatable
            /\ HasArg("inputs") =>
                  /\ Arg("inputs").t = "list"
                  /\ \A i \in DOMAIN Arg("inputs").items :
                        EntryResolves(Arg("inputs").items[i])
      [] c = "setKnobValue" ->
            /\ Resolves(before, Arg("nodeName"))
            /\ HasKnob(before, Found(before, Arg("nodeName")), Arg("knobName"))
            /\ Accepts(KnobClass(Arg("knobName").s), Arg("value"))
      [] c = "getNode" -> Resolves(before, Arg("nodeName"))
      [] c = "execute" ->
            /\ Resolves(before, Arg("writeNodeName"))
            /\ before[Found(before, Arg("writeNodeName")).id].cls = "Write"
            /\ int(Arg("frameRangeStart")).exc = "none"
            /\ int(Arg("frameRangeEnd")).exc = "none"
            /\ env.render = "ok"
            /\ "file" \notin env.unreadable

\* C2 as amended: the four commands answer success: true with the documented
\* keys when, besides, the host can carry the request out; and otherwise
\* they answer success: false
C2_SucceedsWhenFeasible ==
    \A c \in Commands :
        Asked(c) /\ AllRequired(c) =>
            IF Feasible(c)
            THEN Succeeds /\ DocumentedKeys(c) \subseteq DOMAIN stdout[1].data
            ELSE Fails

C2_Witness ==
    /\ Asked("execute") /\ AllRequired("execute") /\ Feasible("execute")
    /\ Succeeds
    /\ stdout[1].data.rendered

(***************************************************************************)
(* C5: createNode whose inputs list has entry k as the first that does not *)
(* resolve answers success: false naming that entry; entries 0..k-1 are    *)
(* wired to slots 0..k-1 in order, no later entry is wired, and the new    *)
(* (renamed) node stays in the session.                                    *)
(***************************************************************************)
InputItems == Arg("inputs").items
\* the entries do not all resolve in the session the process leaves
SomeUnresolved ==
    /\ HasArg("nodeType") /\ HasArg("inputs") /\ Arg("inputs").t = "list"
    /\ \E i \in DOMAIN InputItems : ~Resolves(session, InputItems[i])
\* the first that does not (1-based)
FirstUnresolved ==
    CHOOSE k \in DOMAIN InputItems :
        /\ ~Resolves(session, InputItems[k])
        /\ \A i \in 1..(k - 1) : Resolves(session, InputItems[i])

WiredUpTo(k) ==
    /\ FailsWith("Input node not found: ")
    /\ stdout[1].error.arg = InputItems[k]
    /\ Len(session) = Len(before) + 1
    /\ \A i \in DOMAIN before : session[i] = before[i]
    /\ LET new == session[Len(session)]
       IN  /\ new.cls = Arg("nodeType").s
           /\ new.vals.name = NewName
           /\ new.inputs = [i \in 1..(k - 1) |-> Found(session, InputItems[i]).id]
    /\ SelectSeq(calls, LAMBDA c : c.op = "setInput")
          = [i \in 1..(k - 1) |->
                [op |-> "setInput", node |-> Len(session), slot |-> i - 1,
                 src |-> Found(session, InputItems[i]).id]]

\* C5: the first unresolved entry k is named, entries before it are wired in
\* order, none after it, and the new node stays
C5_FirstMissingInput ==
    Asked("createNode") /\ SomeUnresolved => WiredUpTo(FirstUnresolved)

\* C5 as amended: the same, for a node the host did create and name (a class
\* it knows, a string name) and an entry k that is a string
C5_FirstMissingInputOfCreatedNode ==
    /\ Asked("createNode") /\ SomeUnresolved /\ Creatable
          /\ InputItems[FirstUnresolved].t = "str"
       => WiredUpTo(FirstUnresolved)
    /\ Asked("createNode") /\ SomeUnresolved
          /\ ~(Creatable /\ InputItems[FirstUnresolved].t = "str")
       => FailsWith("Error creating node: ")

C5_Witness ==
    /\ Asked("createNode") /\ SomeUnresolved /\ Creatable
    /\ FirstUnresolved = 2
    /\ Len(InputItems) = 2
    /\ stdout[1].error.arg = Str("Z")
    /\ Len(session[Len(session)].inputs) = 1

(***************************************************************************)
(* C6: setKnobValue changes a parameter only when the named node and the   *)
(* named parameter on it exist, and then changes exactly that parameter    *)
(* and echoes node, knob and value; an absent node gives success: false    *)
(* with an error naming the node, an absent parameter gives success:       *)
(* false, and both leave the session unchanged.                            *)
(***************************************************************************)
NodeExists == Resolves(before, Arg("nodeName"))
KnobExists == NodeExists /\ HasKnob(before, Found(before, Arg("nodeName")), Arg("knobName"))
\* exactly the named knob of the named node took the value, and the response
\* echoes the request
SetAndEchoed ==
    /\ session = [before EXCEPT
                    ![Found(before, Arg("nodeName")).id].vals[Arg("knobName").s] = Arg("value")]
    /\ stdout = <<[success |-> TRUE,
                   data |-> [node |-> Arg("nodeName"), knob |-> Arg("knobName"),
                             value |-> Arg("value")]]>>
NodeNotFoundNamed ==
    /\ FailsWith("Node not found: ")
    /\ stdout[1].error.arg = Arg("nodeName")
    /\ session = before

\* C6: a change only of an existing parameter of an existing node, then
\* exactly that change and the echo; failures name the absent node and
\* change nothing
C6_SetKnobValue ==
    Asked("setKnobValue") /\ AllRequired("setKnobValue") =>
        /\ session # before => KnobExists
        /\ KnobExists => SetAndEchoed
        /\ ~NodeExists => NodeNotFoundNamed
        /\ NodeExists /\ ~KnobExists => Fails /\ session = before

\* C6 as amended: the parameter is set and echoed when the host accepts the
\* value for it; the error names the node when nodeName is a string that
\* names no node; a value the parameter rejects, or a nodeName that is not
\* a string, gives success: false with the host's error, nothing changed
C6_SetKnobValueWhenAccepted ==
    Asked("setKnobValue") /\ AllRequired("setKnobValue") =>
        /\ session # before => KnobExists
        /\ KnobExists /\ Accepts(KnobClass(Arg("knobName").s), Arg("value")) => SetAndEchoed
        /\ KnobExists /\ ~Accepts(KnobClass(Arg("knobName").s), Arg("value")) =>
              FailsWith("Error setting knob value: ") /\ session = before
        /\ ~NodeExists /\ Arg("nodeName").t = "str" => NodeNotFoundNamed
        /\ Arg("nodeName").t # "str" =>
              FailsWith("Error setting knob value: ") /\ session = before
        /\ NodeExists /\ ~KnobExists => Fails /\ session = before

C6_Witness ==
    /\ Asked("setKnobValue") /\ AllRequired("setKnobValue")
    /\ KnobExists
    /\ session # before
    /\ Succeeds
    /\ Len(session) = 2

(***************************************************************************)
(* C7: execute renders at most once, only after the named node was found   *)
(* and is of class Write, over the integer-coerced frame range; an absent  *)
(* node, a node of another class (error: not a Write node) or a frame      *)
(* bound that is no integer gives success: false and no render; rendered:  *)
(* true is printed only after the render returned without raising.         *)
(***************************************************************************)
Renders == SelectSeq(calls, LAMBDA c : c.op = "execute")
WriteNodeFound ==
    /\ Resolves(before, Arg("writeNodeName"))
    /\ before[Found(before, Arg("writeNodeName")).id].cls = "Write"
FramesCoerce ==
    int(Arg("frameRangeStart")).exc = "none" /\ int(Arg("frameRangeEnd")).exc = "none"

\* C7: at most one render, only of a found Write node over the coerced
\* range; every other execute fails without rendering; rendered: true only
\* after a render that did not raise
C7_RenderOnlyWriteNodes ==
    /\ Len(Renders) <= 1
    /\ Renders # <<>> =>
          /\ Asked("execute") /\ AllRequired("execute")
          /\ WriteNodeFound /\ FramesCoerce
          /\ Renders[1] = [op |-> "execute",
                           node |-> Found(before, Arg("writeNodeName")).id,
                           first |-> int(Arg("frameRangeStart")).n,
                           last |-> int(Arg("frameRangeEnd")).n]
          /\ calls = <<[op |-> "toNode", arg |-> Arg("writeNodeName")], Renders[1]>>
    /\ Asked("execute") /\ AllRequired("execute") =>
          /\ ~(WriteNodeFound /\ FramesCoerce) => Fails /\ Renders = <<>>
          /\ Resolves(before, Arg("writeNodeName")) /\ ~WriteNodeFound =>
                stdout[1].error = NotAWriteNode(Arg("writeNodeName"))
          /\ WriteNodeFound /\ FramesCoerce => Len(Renders) = 1
    /\ \A i \in DOMAIN stdout :
          stdout[i].success /\ "rendered" \in DOMAIN stdout[i].data =>
              /\ stdout[i].data.rendered
              /\ Len(Renders) = 1
              /\ env.render = "ok"

\* a render over a coerced range ("2" read as 2) that was answered rendered: true
C7_Witness ==
    /\ Asked("execute")
    /\ Len(Renders) = 1
    /\ Arg("frameRangeStart") = Numeral(2)
    /\ Renders[1].first = 2
    /\ Succeeds

(***************************************************************************)
(* C8: every operation checks its required keys first: a missing key gives *)
(* a failure naming the first missing key in the listed order, and no host *)
(* lookup, creation, mutation or render is performed.                      *)
(***************************************************************************)
FirstMissingKey(c) ==
    LET keys == RequiredKeys(c)
        k == CHOOSE i \in DOMAIN keys :
                 /\ ~HasArg(keys[i])
                 /\ \A j \in 1..(i - 1) : HasArg(keys[j])
    IN  keys[k]

\* C8: a missing required key is answered by naming the first one missing,
\* with no host call made and the session untouched
C8_RequiredKeysFirst ==
    \A c \in Commands :
        Asked(c) /\ ~AllRequired(c) =>
            /\ stdout = <<[success |-> FALSE, data |-> None,
                           error |-> Required(FirstMissingKey(c))]>>
            /\ calls = <<>>
            /\ session = before
            /\ handlers = <<HandlerOf(c)>>

\* the second of three keys is the first missing one, the third missing too
C8_Witness ==
    /\ Asked("execute")
    /\ HasArg("writeNodeName") /\ ~HasArg("frameRangeStart") /\ ~HasArg("frameRangeEnd")
    /\ Len(stdout) = 1
    /\ stdout[1].error.key = "frameRangeStart"

(***************************************************************************)
(* C9: getNode never changes the session; it fails if the named node is    *)
(* absent; for an existing node it succeeds with a parameter map holding   *)
(* exactly the parameters of a scalar kind whose read did not fail.        *)
(***************************************************************************)
ScalarKinds ==
    {"String_Knob", "File_Knob", "Text_Knob", "Int_Knob", "Double_Knob",
     "Boolean_Knob", "XY_Knob"}

\* C9: getNode leaves the session unchanged, fails for an absent node and
\* otherwise returns exactly the readable parameters of a scalar kind
C9_GetNodeSnapshot ==
    /\ Exited /\ handlers = <<"get_node">> => session = before
    /\ Asked("getNode") /\ AllRequired("getNode") =>
          IF ~Resolves(before, Arg("nodeName"))
          THEN Fails
          ELSE LET node == before[Found(before, Arg("nodeName")).id]
                   kept == {k \in DOMAIN node.vals :
                               KnobClass(k) \in ScalarKinds /\ k \notin env.unreadable}
               IN  /\ Succeeds
                   /\ stdout[1].data.name = Arg("nodeName")
                   /\ stdout[1].data.type = Str(node.cls)
                   /\ stdout[1].data.knobs = [k \in kept |-> node.vals[k]]

\* a node with a parameter of another kind (channels) and one whose read failed
C9_Witness ==
    /\ Asked("getNode") /\ AllRequired("getNode")
    /\ Succeeds
    /\ env.unreadable = {"size"}
    /\ DOMAIN stdout[1].data.knobs = {"name"}

====
